---- MODULE Spec2Model ----
(***************************************************************************)
(* Model of the helper functions and cell logic of the OpenVINO notebooks  *)
(*   245-typo-detector, 244-named-entity-recognition,                      *)
(*   227-whisper-nncf-quantize and                                         *)
(*   122-speech-recognition-quantization-wav2vec2.                         *)
(*                                                                         *)
(* Python strings are modelled as sequences of one-character strings, so   *)
(* that startswith, re.split, slicing and str.replace are computed and not *)
(* assumed.  A list is a sequence, a dict is a function.                   *)
(***************************************************************************)
EXTENDS Integers, Sequences, FiniteSets, TLC

VARIABLES
    op,            \* the helper / cell that ran last
    sentence,      \* show_typos / sentence_split argument
    tokens,        \* token list (tokenizer.tokenize output or direct argument)
    map_to_words,  \* dict built by token_to_words
    result,        \* result[0] of infer(): one row of label scores per input id
    typo_indexes,  \* list returned by get_typo_indexes
    splitted,      \* list returned by sentence_split
    typos,         \* show_typos: the list of typo strings
    spans,         \* pipeline variant: the (start, end) pairs returned by nlp()
    detected,      \* show_typos: the string printed after "[Detected]:"
    error,         \* exception that ended the call, or "none"
    \* 227-whisper-nncf-quantize
    COLLECT_CALIBRATION_DATA,   \* the module-level flag
    encoder_calibration_data,   \* the module-level lists
    decoder_calibration_data,
    collection,    \* the collection cell: "idle", "collecting", "done", "failed"
    collection_exc,\* exception that left the collection cell, or "none"
    calls,         \* history: the forward calls made, each with the flag it
                   \* found and with its effect
    recalled,      \* history: the functions called again with arguments and
                   \* flag of an earlier call
    enc_at_begin,  \* history: the lists as the current (or last) block found them
    dec_at_begin,
    block_enc,     \* history: the mel of each encoder forward call made inside
                   \* the current (or last) block, in call order
    block_dec,     \* history: likewise the preprocessed feed_dict of each decoder
                   \* forward call
    \* 244-named-entity-recognition
    launch,        \* outcome of the demo launch cell
    \* 245-typo-detector: the two load cells, one per model_dir
    fs,            \* model_dir -> whether the directory exists and its files
    model,         \* model_dir -> where the cell's model came from, or "none"
    last_run,      \* model_dir -> what the last execution of the cell did
    save_runs,     \* model_dir -> number of executions whose save_pretrained wrote
    runs,          \* model_dir -> number of executions of the cell
    \* 227-whisper-nncf-quantize: calculate_call_inference_time
    cit_pc,        \* "idle", "loop" (inside the for loop) or "returned"
    cit_dataset,   \* the dataset argument
    cit_clock,     \* the durations time.perf_counter measures during the call
    cit_items,     \* the list the for loop iterates
    cit_invoked,   \* history: the items the model was called on, in call order
    inference_time,\* the local list of the function
    cit_ret,       \* the value returned
    \* 122-speech-recognition-quantization-wav2vec2
    wer_op,        \* "idle", "validation_fn" or "compute_wer": the call made last
    wer_model,     \* the model argument of the two calls
    wer_dataset,   \* the dataset argument of the two calls
    validation_out,\* validation_fn: value returned and the metric updates made
    compute_wer_out,\* compute_wer: value returned and the metric updates made
    \* 227-whisper-nncf-quantize: calculate_transcription_time_and_accuracy
    tta_pc,        \* "idle", "loop" (inside the for loop), "returned" or "raised"
    tta_model,     \* the model argument
    tta_dataset,   \* the dataset argument
    ground_truths, \* the three local lists of the function
    predictions,
    tta_inference_time,
    tta_transcribed,\* history: the audio of each call of model.transcribe, in order
    tta_measured,  \* history: the time each call of model.transcribe took
    tta_ret,       \* the pair returned
    \* 227-whisper-nncf-quantize: the run of the notebook, top to bottom
    run_cell,      \* how far the run got: "collection", "encoder_quantized",
                   \* "encoder_saved", "decoder_quantized", "decoder_saved",
                   \* "int8_loaded", "timed", "compared", or "stopped"
    quantized_encoder,
    quantized_decoder,
    ir_files,      \* IR file -> the model serialized to it
    serialized,    \* history: the files serialize() wrote during the run
    model_int8,    \* the INT8 model, with the files written when it was loaded
    quantize_log,  \* history: the nncf.quantize calls
    use_log        \* history: the comparisons that used model_int8

typovars == <<op, sentence, tokens, map_to_words, result, typo_indexes,
              splitted, typos, spans, detected, error>>

blockvars == <<enc_at_begin, dec_at_begin, block_enc, block_dec>>

whispervars == <<COLLECT_CALIBRATION_DATA, encoder_calibration_data,
                 decoder_calibration_data, collection, collection_exc, calls,
                 recalled, blockvars>>

notebookvars == <<whispervars, launch>>

loadvars == <<fs, model, last_run, save_runs, runs>>

timingvars == <<cit_pc, cit_dataset, cit_clock, cit_items, cit_invoked,
                inference_time, cit_ret>>

wervars == <<wer_op, wer_model, wer_dataset, validation_out, compute_wer_out>>

accuracyvars == <<tta_pc, tta_model, tta_dataset, ground_truths, predictions,
                  tta_inference_time, tta_transcribed, tta_measured, tta_ret>>

runvars == <<run_cell, quantized_encoder, quantized_decoder, ir_files, serialized,
             model_int8, quantize_log, use_log>>

othervars == <<timingvars, wervars, accuracyvars, runvars>>

extravars == <<loadvars, othervars>>

vars == <<typovars, notebookvars, extravars>>

----------------------------------------------------------------------------
(* Bounds of the model *)

MaxLen == 3        \* longest sentence, in characters
MaxTokens == 3     \* longest token list handed directly to token_to_words
MaxSpans == 2      \* most entity groups returned by the pipeline
MaxCalib == 2      \* cap on the length of a calibration list
MaxRuns == 3       \* executions of one load cell
MaxData == 101     \* longest dataset handed to calculate_call_inference_time
MaxSamples == 2    \* longest dataset handed to validation_fn and compute_wer
MaxItems == 2      \* longest dataset handed to calculate_transcription_time_and_accuracy

----------------------------------------------------------------------------
(* Characters and strings *)

Letters == {"a", "i"}
Delims == {"'", ",", ".", " "}
OtherPunct == {"!"}
Alphabet == Letters \cup Delims \cup OtherPunct

OpenTag == <<"<", "i", ">">>
CloseTag == <<"<", "/", "i", ">">>

RECURSIVE StringsUpTo(_)
StringsUpTo(n) ==
    IF n = 0 THEN {<< >>}
    ELSE LET shorter == StringsUpTo(n - 1)
         IN  shorter \cup {Append(s, c) : s \in {t \in shorter : Len(t) = n - 1}, c \in Alphabet}

Sentences == StringsUpTo(MaxLen)

RECURSIVE Concat(_)
Concat(list) ==
    IF list = << >> THEN << >> ELSE Head(list) \o Concat(Tail(list))

startswith(s, prefix) ==
    /\ Len(s) >= Len(prefix)
    /\ SubSeq(s, 1, Len(prefix)) = prefix

\* Python's str.replace(old, new) for a non-empty old: leftmost, non-overlapping
RECURSIVE replace(_, _, _)
replace(s, old, new) ==
    IF Len(s) < Len(old) THEN s
    ELSE IF startswith(s, old)
         THEN new \o replace(SubSeq(s, Len(old) + 1, Len(s)), old, new)
         ELSE <<Head(s)>> \o replace(Tail(s), old, new)

----------------------------------------------------------------------------
(* token_to_words *)

EmptyDict == [k \in {} |-> 0]

DictPut(d, k, v) == [x \in (DOMAIN d) \cup {k} |-> IF x = k THEN v ELSE d[x]]

ContinuationPrefix == <<"#", "#">>

RECURSIVE token_to_words_loop(_, _, _, _)
token_to_words_loop(toks, k, word_count, map) ==
    IF k > Len(toks) THEN map
    ELSE IF startswith(toks[k], ContinuationPrefix)
         THEN token_to_words_loop(toks, k + 1, word_count,
                                  DictPut(map, toks[k], word_count))
         ELSE token_to_words_loop(toks, k + 1, word_count + 1,
                                  DictPut(map, toks[k], word_count + 1))

\* faulty variant: word_count starts at 0 instead of -1
token_to_words_from_zero(toks) == token_to_words_loop(toks, 1, 0, EmptyDict)

token_to_words(toks) == token_to_words_loop(toks, 1, -1, EmptyDict)

----------------------------------------------------------------------------
(* get_typo_indexes *)

\* one score per label; label 1 is the typo label.  Rows holds a row for
\* each label and a tie, LabelRows the two untied ones.
Rows == {<<1, 0>>, <<0, 1>>, <<1, 1>>}
LabelRows == {<<1, 0>>, <<0, 1>>}

\* np.argmax: 0-based index of the first maximal entry
argmax(row) ==
    CHOOSE i \in 0 .. (Len(row) - 1) :
        /\ \A j \in 0 .. (Len(row) - 1) : row[j + 1] <= row[i + 1]
        /\ \A j \in 0 .. (i - 1) : row[j + 1] < row[i + 1]

InList(x, list) == \E k \in 1 .. Len(list) : list[k] = x

\* result[0][1:-1]
StripSpecialRows(res) == SubSeq(res, 2, Len(res) - 1)

RECURSIVE get_typo_indexes_loop(_, _, _, _, _)
get_typo_indexes_loop(result_list, map, toks, c, wrong_words) ==
    IF c >= Len(result_list) THEN wrong_words
    ELSE LET i == result_list[c + 1]
             prob == argmax(i)
             w == map[toks[c + 1]]
         IN  IF prob = 1 /\ ~InList(w, wrong_words)
             THEN get_typo_indexes_loop(result_list, map, toks, c + 1, Append(wrong_words, w))
             ELSE get_typo_indexes_loop(result_list, map, toks, c + 1, wrong_words)

get_typo_indexes(res, map, toks) ==
    get_typo_indexes_loop(StripSpecialRows(res), map, toks, 0, << >>)

----------------------------------------------------------------------------
(* sentence_split *)

\* re.split("([',. ])", s): the text between delimiters (possibly empty) and,
\* because of the capturing group, every delimiter as a piece of its own
RECURSIVE re_split(_, _)
re_split(s, cur) ==
    IF s = << >> THEN <<cur>>
    ELSE IF Head(s) \in Delims
         THEN <<cur, <<Head(s)>>>> \o re_split(Tail(s), << >>)
         ELSE re_split(Tail(s), Append(cur, Head(s)))

KeepPiece(x) == x # <<" ">> /\ x # << >>

\* faulty variant: the pattern without the capturing group, re.split("[',. ]", s),
\* drops the delimiters
RECURSIVE re_split_nocapture(_, _)
re_split_nocapture(s, cur) ==
    IF s = << >> THEN <<cur>>
    ELSE IF Head(s) \in Delims
         THEN <<cur>> \o re_split_nocapture(Tail(s), << >>)
         ELSE re_split_nocapture(Tail(s), Append(cur, Head(s)))

sentence_split_nocapture(s) == SelectSeq(re_split_nocapture(s, << >>), KeepPiece)

\* faulty variant: the filter keeps the single spaces
KeepNonEmpty(x) == x # << >>

sentence_split_keepspace(s) == SelectSeq(re_split(s, << >>), KeepNonEmpty)

sentence_split(s) == SelectSeq(re_split(s, << >>), KeepPiece)

----------------------------------------------------------------------------
(* tokenizer.tokenize: the WordPiece tokenizer of the DistilBERT typo model. *)
(* Whitespace separates words, every punctuation character is a word of    *)
(* its own, and each word is cut greedily (longest match first) into       *)
(* vocabulary pieces, the non-initial pieces carrying the '##' prefix.     *)

Punctuation == (Delims \ {" "}) \cup OtherPunct

RECURSIVE basic_tokenize(_, _)
basic_tokenize(s, cur) ==
    LET flush == IF cur = << >> THEN << >> ELSE <<cur>>
    IN  IF s = << >> THEN flush
        ELSE IF Head(s) = " " THEN flush \o basic_tokenize(Tail(s), << >>)
        ELSE IF Head(s) \in Punctuation
             THEN flush \o <<<<Head(s)>>>> \o basic_tokenize(Tail(s), << >>)
             ELSE basic_tokenize(Tail(s), Append(cur, Head(s)))

WordPieceVocab ==
    {<<c>> : c \in Letters \cup Punctuation}
        \cup {<<"a", "i">>}
        \cup {ContinuationPrefix \o <<c>> : c \in Letters}

UnknownToken == <<"[", "U", "N", "K", "]">>

Piece(word, start, end) ==
    IF start = 1 THEN SubSeq(word, start, end)
    ELSE ContinuationPrefix \o SubSeq(word, start, end)

RECURSIVE wordpiece(_, _)
wordpiece(word, start) ==
    IF start > Len(word) THEN << >>
    ELSE LET ends == {e \in start .. Len(word) : Piece(word, start, e) \in WordPieceVocab}
         IN  IF ends = {} THEN <<UnknownToken>>
             ELSE LET end == CHOOSE e \in ends : \A f \in ends : f <= e
                      rest == wordpiece(word, end + 1)
                  IN  IF rest = <<UnknownToken>> THEN rest
                      ELSE <<Piece(word, start, end)>> \o rest

RECURSIVE wordpiece_all(_)
wordpiece_all(words) ==
    IF words = << >> THEN << >>
    ELSE wordpiece(Head(words), 1) \o wordpiece_all(Tail(words))

tokenize(s) == wordpiece_all(basic_tokenize(s, << >>))

----------------------------------------------------------------------------
(* show_typos, OpenVINO IR variant and pipeline variant *)

NoValue == "none"

\* list[i] with a Python list index: valid iff -len <= i < len
PyIndexOk(list, i) == -Len(list) <= i /\ i < Len(list)
PyIndex(list, i) == IF i >= 0 THEN list[i + 1] ELSE list[Len(list) + i + 1]

Tagged(typo) == OpenTag \o typo \o CloseTag

RECURSIVE annotate(_, _)
annotate(det, typo_list) ==
    IF typo_list = << >> THEN det
    ELSE annotate(replace(det, Head(typo_list), Tagged(Head(typo_list))), Tail(typo_list))

show_typos(s, res) ==
    LET toks == tokenize(s)
        map == token_to_words(toks)
        indexes == get_typo_indexes(res, map, toks)
        sentence_words == sentence_split(s)
        ok == \A k \in 1 .. Len(indexes) : PyIndexOk(sentence_words, indexes[k])
        typo_list == [k \in 1 .. Len(indexes) |-> PyIndex(sentence_words, indexes[k])]
    IN  [tokens |-> toks, map_to_words |-> map, typo_indexes |-> indexes,
         splitted |-> sentence_words,
         typos |-> IF ok THEN typo_list ELSE << >>,
         detected |-> IF ok THEN annotate(s, typo_list) ELSE NoValue,
         error |-> IF ok THEN NoValue ELSE "IndexError"]

\* sentence[r["start"]: r["end"]] for 0 <= start <= end <= len(sentence)
Slice(s, start, end) == SubSeq(s, start + 1, end)

show_typos_pipeline(s, span_list) ==
    LET typo_list == [k \in 1 .. Len(span_list) |-> Slice(s, span_list[k][1], span_list[k][2])]
    IN  [typos |-> typo_list, detected |-> annotate(s, typo_list)]

----------------------------------------------------------------------------
(* 227-whisper-nncf-quantize: collection of the calibration samples *)

Mels == {1, 2}
DecoderInputs == {[x |-> 1, xa |-> 1, kv_cache |-> "None"],
                  [x |-> 1, xa |-> 1, kv_cache |-> "cache"]}

\* the compiled OpenVINO models and the decoder's pre/post-processing are
\* functions of their input
compiled_encoder(mel) == <<"encoded", mel>>
preprocess_kv_cache_inputs(feed_dict, kv_cache) == [feed_dict EXCEPT !.kv_cache = kv_cache]
compiled_decoder(feed_dict) == <<"decoded", feed_dict>>
postprocess_outputs(res) == <<"logits", res>>

\* faulty variant: the sample is collected only while the list is empty
encoder_forward_first_only(flag, data, mel) ==
    [data |-> IF flag /\ data = << >> THEN Append(data, mel) ELSE data,
     ret |-> compiled_encoder(mel)]

\* encoder_forward(self, mel), reading the flag and the list it appends to
encoder_forward(flag, data, mel) ==
    [data |-> IF flag THEN Append(data, mel) ELSE data,
     ret |-> compiled_encoder(mel)]

\* the feed_dict of a decoder call after preprocess_kv_cache_inputs
FeedDict(x, xa, kv_cache) ==
    preprocess_kv_cache_inputs([x |-> x, xa |-> xa, kv_cache |-> "None"], kv_cache)

\* faulty variant: the feed_dict is collected before the kv cache is added
decoder_forward_raw(flag, data, x, xa, kv_cache) ==
    LET raw == [x |-> x, xa |-> xa, kv_cache |-> "None"]
        feed_dict == preprocess_kv_cache_inputs(raw, kv_cache)
    IN  [data |-> IF flag THEN Append(data, raw) ELSE data,
         ret |-> postprocess_outputs(compiled_decoder(feed_dict))]

decoder_forward(flag, data, x, xa, kv_cache) ==
    LET feed_dict == preprocess_kv_cache_inputs([x |-> x, xa |-> xa, kv_cache |-> "None"], kv_cache)
    IN  [data |-> IF flag THEN Append(data, feed_dict) ELSE data,
         ret |-> postprocess_outputs(compiled_decoder(feed_dict))]

\* what a call appended: the list after the call without the list before it
Appended(before, after) == SubSeq(after, Len(before) + 1, Len(after))

\* a call that repeats the function, arguments and flag of a recorded call
IsRecall(fn, args) ==
    \E c \in calls : c.fn = fn /\ c.args = args /\ c.flag = COLLECT_CALIBRATION_DATA

\* with calibration_data_collection(): the code before the yield
CollectBegin ==
    /\ collection # "collecting"
    /\ COLLECT_CALIBRATION_DATA' = TRUE
    /\ collection' = "collecting"
    /\ collection_exc' = NoValue
    /\ enc_at_begin' = encoder_calibration_data
    /\ dec_at_begin' = decoder_calibration_data
    /\ block_enc' = << >>
    /\ block_dec' = << >>
    /\ UNCHANGED <<encoder_calibration_data, decoder_calibration_data, calls, recalled, launch>>
    /\ UNCHANGED <<typovars, extravars>>

\* model_fp32.encoder.forward(mel), called by transcribe inside the block
\* and by the later cells that transcribe with model_fp32
EncoderForward ==
    /\ collection # "idle"
    /\ COLLECT_CALIBRATION_DATA => Len(encoder_calibration_data) < MaxCalib
    /\ \E mel \in Mels :
        LET r == encoder_forward(COLLECT_CALIBRATION_DATA, encoder_calibration_data, mel)
        IN  /\ encoder_calibration_data' = r.data
            /\ calls' = calls \cup
                   {[fn |-> "encoder_forward", args |-> <<mel>>,
                     flag |-> COLLECT_CALIBRATION_DATA,
                     appended |-> Appended(encoder_calibration_data, r.data),
                     ret |-> r.ret]}
            /\ recalled' = IF IsRecall("encoder_forward", <<mel>>)
                           THEN recalled \cup {"encoder_forward"} ELSE recalled
            /\ block_enc' = IF collection = "collecting"
                            THEN Append(block_enc, mel) ELSE block_enc
    /\ UNCHANGED <<COLLECT_CALIBRATION_DATA, decoder_calibration_data, collection,
                   collection_exc, launch, enc_at_begin, dec_at_begin, block_dec>>
    /\ UNCHANGED <<typovars, extravars>>

DecoderForward ==
    /\ collection # "idle"
    /\ COLLECT_CALIBRATION_DATA => Len(decoder_calibration_data) < MaxCalib
    /\ \E inp \in DecoderInputs :
        LET r == decoder_forward(COLLECT_CALIBRATION_DATA, decoder_calibration_data,
                                 inp.x, inp.xa, inp.kv_cache)
        IN  /\ decoder_calibration_data' = r.data
            /\ calls' = calls \cup
                   {[fn |-> "decoder_forward", args |-> <<inp.x, inp.xa, inp.kv_cache>>,
                     flag |-> COLLECT_CALIBRATION_DATA,
                     appended |-> Appended(decoder_calibration_data, r.data),
                     ret |-> r.ret]}
            /\ recalled' = IF IsRecall("decoder_forward", <<inp.x, inp.xa, inp.kv_cache>>)
                           THEN recalled \cup {"decoder_forward"} ELSE recalled
            /\ block_dec' = IF collection = "collecting"
                            THEN Append(block_dec, FeedDict(inp.x, inp.xa, inp.kv_cache))
                            ELSE block_dec
    /\ UNCHANGED <<COLLECT_CALIBRATION_DATA, encoder_calibration_data, collection,
                   collection_exc, launch, enc_at_begin, dec_at_begin, block_enc>>
    /\ UNCHANGED <<typovars, extravars>>

LibraryExceptions == {"Exception", "KeyboardInterrupt"}

\* the finally clause of calibration_data_collection: the flag is reset and
\* an exception that came out of the block goes on
\* faulty variant: the flag is not reset
collection_exit_flag_left(exception) == [flag |-> TRUE, uncaught |-> exception]

collection_exit(exception) == [flag |-> FALSE, uncaught |-> exception]

\* the loop ends: the block is left normally
CollectEnd ==
    /\ collection = "collecting"
    /\ LET r == collection_exit(NoValue)
       IN  /\ COLLECT_CALIBRATION_DATA' = r.flag
           /\ collection_exc' = r.uncaught
    /\ collection' = "done"
    /\ UNCHANGED <<encoder_calibration_data, decoder_calibration_data, calls, recalled, launch,
                   blockvars>>
    /\ UNCHANGED <<typovars, extravars>>

\* model_fp32.transcribe (or the dataset iterator) raises inside the block
TranscribeRaises ==
    /\ collection = "collecting"
    /\ \E exception \in LibraryExceptions :
        LET r == collection_exit(exception)
        IN  /\ COLLECT_CALIBRATION_DATA' = r.flag
            /\ collection_exc' = r.uncaught
    /\ collection' = "failed"
    /\ UNCHANGED <<encoder_calibration_data, decoder_calibration_data, calls, recalled, launch,
                   blockvars>>
    /\ UNCHANGED <<typovars, extravars>>

----------------------------------------------------------------------------
(* 244-named-entity-recognition: the demo launch cell *)

NotLaunched == [attempts |-> 0, raised |-> 0, uncaught |-> NoValue,
                share |-> FALSE, running |-> FALSE]

LaunchOutcomes == {"ok"} \cup LibraryExceptions

\* `except Exception` catches Exception, not KeyboardInterrupt
CaughtByExceptException(outcome) == outcome = "Exception"

\* faulty variant: the fallback launch is guarded as well and its exception dropped
demo_launch_swallow(first, second) ==
    IF first = "ok"
    THEN [attempts |-> 1, raised |-> 0, uncaught |-> NoValue, share |-> FALSE, running |-> TRUE]
    ELSE IF CaughtByExceptException(first)
         THEN [attempts |-> 2, raised |-> IF second = "ok" THEN 1 ELSE 2,
               uncaught |-> NoValue, share |-> TRUE, running |-> second = "ok"]
         ELSE [attempts |-> 1, raised |-> 1, uncaught |-> first, share |-> FALSE, running |-> FALSE]

\* try: demo.launch(debug=True)  except Exception: demo.launch(share=True, debug=True)
\* first and second are what the two launch calls do
demo_launch(first, second) ==
    IF first = "ok"
    THEN [attempts |-> 1, raised |-> 0, uncaught |-> NoValue, share |-> FALSE, running |-> TRUE]
    ELSE IF CaughtByExceptException(first)
         THEN IF second = "ok"
              THEN [attempts |-> 2, raised |-> 1, uncaught |-> NoValue,
                    share |-> TRUE, running |-> TRUE]
              ELSE [attempts |-> 2, raised |-> 2, uncaught |-> second,
                    share |-> TRUE, running |-> FALSE]
         ELSE [attempts |-> 1, raised |-> 1, uncaught |-> first, share |-> FALSE, running |-> FALSE]

DemoLaunch ==
    /\ \E first \in LaunchOutcomes, second \in LaunchOutcomes :
        launch' = demo_launch(first, second)
    /\ UNCHANGED whispervars
    /\ UNCHANGED <<typovars, extravars>>

----------------------------------------------------------------------------
(* 245-typo-detector: the cells that load the model, saving it on first use *)

ModelDirs == {"optimum_model", "pytorch_model"}

\* what save_pretrained writes into the directory
ModelFiles == {"config", "weights"}
OnnxFile == "typo_detect.onnx"

AbsentDir == [exists |-> FALSE, files |-> {}]

Exists(dir) == dir.exists

\* a library call returns or raises; save_pretrained can raise before it
\* has created the directory or after it has written part of the files
CallOutcomes == {"ok", "raise"}
SaveOutcomes == {"ok", "raise_before", "raise_partial"}

NoRun == [found |-> NoValue, source |-> NoValue, before |-> AbsentDir,
          wrote |-> FALSE, completed |-> FALSE]

save_pretrained(dir, outcome) ==
    IF outcome = "ok" THEN [exists |-> TRUE, files |-> dir.files \cup ModelFiles]
    ELSE IF outcome = "raise_partial" THEN [exists |-> TRUE, files |-> dir.files \cup {"config"}]
    ELSE dir

\* faulty variant: the cell exports and saves on every execution
load_cell_always_save(dir, load, save) ==
    IF load = "ok"
    THEN [dir |-> save_pretrained(dir, save), model |-> IF save = "ok" THEN "hub" ELSE NoValue,
          run |-> [found |-> IF Exists(dir) THEN "present" ELSE "absent", source |-> "hub",
                   before |-> dir, wrote |-> save # "raise_before", completed |-> save = "ok"]]
    ELSE [dir |-> dir, model |-> NoValue,
          run |-> [found |-> IF Exists(dir) THEN "present" ELSE "absent", source |-> "hub",
                   before |-> dir, wrote |-> FALSE, completed |-> FALSE]]

\* if model_dir.exists(): model = from_pretrained(model_dir)
\* else: model = from_pretrained(model_id, ...); model.save_pretrained(model_dir)
\* load and save are what the from_pretrained and the save_pretrained call do
load_cell(dir, load, save) ==
    IF Exists(dir)
    THEN [dir |-> dir, model |-> IF load = "ok" THEN "model_dir" ELSE NoValue,
          run |-> [found |-> "present", source |-> "model_dir", before |-> dir,
                   wrote |-> FALSE, completed |-> load = "ok"]]
    ELSE IF load = "ok"
         THEN [dir |-> save_pretrained(dir, save),
               model |-> IF save = "ok" THEN "hub" ELSE NoValue,
               run |-> [found |-> "absent", source |-> "hub", before |-> dir,
                        wrote |-> save # "raise_before", completed |-> save = "ok"]]
         ELSE [dir |-> dir, model |-> NoValue,
               run |-> [found |-> "absent", source |-> "hub", before |-> dir,
                        wrote |-> FALSE, completed |-> FALSE]]

\* one execution of the load cell of directory d; a failed execution
\* leaves the name `model` as it was
RunLoadCell(d) ==
    /\ runs[d] < MaxRuns
    /\ \E load \in CallOutcomes, save \in SaveOutcomes :
        \E r \in {load_cell(fs[d], load, save)} :
            /\ fs' = [fs EXCEPT ![d] = r.dir]
            /\ model' = [model EXCEPT ![d] = IF r.run.completed THEN r.model ELSE @]
            /\ last_run' = [last_run EXCEPT ![d] = r.run]
            /\ save_runs' = [save_runs EXCEPT ![d] = IF r.run.wrote THEN @ + 1 ELSE @]
    /\ runs' = [runs EXCEPT ![d] = @ + 1]
    /\ UNCHANGED <<typovars, notebookvars, othervars>>

LoadOptimumModel == RunLoadCell("optimum_model")

LoadPytorchModel == RunLoadCell("pytorch_model")

\* torch.onnx.export(model, ..., f=Path(model_dir) / "typo_detect.onnx")
ExportOnnx ==
    /\ model["pytorch_model"] # NoValue
    /\ Exists(fs["pytorch_model"])
    /\ fs' = [fs EXCEPT !["pytorch_model"].files = @ \cup {OnnxFile}]
    /\ UNCHANGED <<model, last_run, save_runs, runs>>
    /\ UNCHANGED <<typovars, notebookvars, othervars>>

----------------------------------------------------------------------------
(* 227-whisper-nncf-quantize: calculate_call_inference_time *)

SliceLimit == 100   \* dataset[:100]

\* list[:n] for n >= 0
SliceTo(list, n) == SubSeq(list, 1, IF Len(list) < n THEN Len(list) ELSE n)

\* a float as the fraction num / den; 0 / 0 is nan
Frac(num, den) == [num |-> num, den |-> den]
NaN == Frac(0, 0)

\* a.partition(kth)[kth] for the 1-based place k: the entry that stands at
\* place k when the entries are in ascending order
partition_at(a, k) ==
    CHOOSE x \in {a[j] : j \in 1 .. Len(a)} :
        /\ Cardinality({j \in 1 .. Len(a) : a[j] < x}) < k
        /\ k <= Cardinality({j \in 1 .. Len(a) : a[j] <= x})

\* faulty variant: the upper middle entry for a list of even length
np_median_upper(a) ==
    IF a = << >> THEN NaN ELSE Frac(partition_at(a, Len(a) \div 2 + 1), 1)

\* np.median: the middle entry in ascending order, the mean of the two
\* middle entries when the length is even, nan for the empty list
np_median(a) ==
    LET n == Len(a)
    IN  IF n = 0 THEN NaN
        ELSE IF n % 2 = 1 THEN Frac(partition_at(a, (n + 1) \div 2), 1)
        ELSE Frac(partition_at(a, n \div 2) + partition_at(a, n \div 2 + 1), 2)

\* a dataset is a list of samples; a sample is named by its position
Datasets == {[i \in 1 .. n |-> i] : n \in 0 .. MaxData}

\* end - start of the i-th timed call, for the patterns of durations a run
\* can show: all equal, fluctuating, growing
Clocks == 1 .. 3
Delta(clock, i) ==
    CASE clock = 1 -> 2
      [] clock = 2 -> ((i * 2) % 3) + 1
      [] OTHER -> i

\* def calculate_call_inference_time(model, dataset): up to the for statement
CallInferenceTimeBegin ==
    /\ cit_pc \in {"idle", "returned"}
    /\ \E dataset \in Datasets, clock \in Clocks :
        /\ cit_dataset' = dataset
        /\ cit_clock' = clock
        /\ cit_items' = SliceTo(dataset, SliceLimit)
    /\ cit_invoked' = << >>
    /\ inference_time' = << >>
    /\ cit_ret' = NaN
    /\ cit_pc' = "loop"
    /\ UNCHANGED <<typovars, notebookvars, loadvars, wervars, accuracyvars, runvars>>

\* one iteration of the for loop
CallInferenceTimeStep ==
    /\ cit_pc = "loop"
    /\ Len(inference_time) < Len(cit_items)
    /\ LET data_item == cit_items[Len(inference_time) + 1]
           delta == Delta(cit_clock, Len(inference_time) + 1)
       IN  /\ cit_invoked' = Append(cit_invoked, data_item)
           /\ inference_time' = Append(inference_time, delta)
    /\ UNCHANGED <<cit_pc, cit_dataset, cit_clock, cit_items, cit_ret>>
    /\ UNCHANGED <<typovars, notebookvars, loadvars, wervars, accuracyvars, runvars>>

\* the loop is exhausted: return np.median(inference_time)
CallInferenceTimeReturn ==
    /\ cit_pc = "loop"
    /\ Len(inference_time) = Len(cit_items)
    /\ cit_ret' = np_median(inference_time)
    /\ cit_pc' = "returned"
    /\ UNCHANGED <<cit_dataset, cit_clock, cit_items, cit_invoked, inference_time>>
    /\ UNCHANGED <<typovars, notebookvars, loadvars, wervars, accuracyvars, runvars>>

----------------------------------------------------------------------------
(* 122-speech-recognition-quantization-wav2vec2: validation_fn, compute_wer *)

\* the tokenizer's vocabulary: id 0 is the pad token (the CTC blank), id 1 the
\* word delimiter, id 2 a letter
PadId == 0
DelimiterId == 1
IdToChar(id) == IF id = DelimiterId THEN " " ELSE "A"

\* sample['input_values'] and sample['text']
Audio == {"a1", "a2"}
Texts == {<< >>, <<"A">>, <<"A", "A">>, <<"A", " ", "A">>}
Samples == [input_values : Audio, text : Texts]

\* logits of shape (1, frames, vocabulary): the scores of three frames
PadRow == <<2, 1, 1>>
DelimiterRow == <<1, 2, 1>>
LetterRow == <<1, 1, 2>>
TieRow == <<1, 2, 2>>
Logits == { << <<LetterRow, PadRow, LetterRow>> >>,
            << <<LetterRow, DelimiterRow, LetterRow>> >>,
            << <<LetterRow, LetterRow, TieRow>> >> }

\* a model maps the input values to logits
Models == [Audio -> Logits]

\* np.argmax(logits, axis=-1) and torch.argmax(logits, dim=-1)
argmax_last_axis(logits) ==
    [b \in 1 .. Len(logits) |-> [k \in 1 .. Len(logits[b]) |-> argmax(logits[b][k])]]

\* str.strip() and str.split() on white space
RECURSIVE lstrip(_)
lstrip(str) == IF str # << >> /\ Head(str) = " " THEN lstrip(Tail(str)) ELSE str

RECURSIVE rstrip(_)
rstrip(str) ==
    IF str # << >> /\ str[Len(str)] = " " THEN rstrip(SubSeq(str, 1, Len(str) - 1)) ELSE str

RECURSIVE split(_, _)
split(str, cur) ==
    IF str = << >> THEN (IF cur = << >> THEN << >> ELSE <<cur>>)
    ELSE IF Head(str) = " "
         THEN (IF cur = << >> THEN << >> ELSE <<cur>>) \o split(Tail(str), << >>)
         ELSE split(Tail(str), Append(cur, Head(str)))

\* processor.batch_decode: per row of ids the CTC decoding, which groups
\* repeated ids, drops the pad token and turns the delimiter into a space
ctc_decode(ids) ==
    LET grouped == SelectSeq([k \in 1 .. Len(ids) |->
                                 IF k > 1 /\ ids[k] = ids[k - 1] THEN -1 ELSE ids[k]],
                             LAMBDA id : id # -1)
        kept == SelectSeq(grouped, LAMBDA id : id # PadId)
    IN  rstrip(lstrip([k \in 1 .. Len(kept) |-> IdToChar(kept[k])]))

batch_decode(predicted_ids) ==
    [b \in 1 .. Len(predicted_ids) |-> ctc_decode(predicted_ids[b])]

\* torchmetrics: the edit distance between two lists of words
RECURSIVE edit_distance(_, _)
edit_distance(a, b) ==
    IF a = << >> THEN Len(b)
    ELSE IF b = << >> THEN Len(a)
    ELSE IF Head(a) = Head(b) THEN edit_distance(Tail(a), Tail(b))
    ELSE LET del == edit_distance(Tail(a), b)
             ins == edit_distance(a, Tail(b))
             sub == edit_distance(Tail(a), Tail(b))
             least == IF del <= ins THEN del ELSE ins
         IN  1 + (IF least <= sub THEN least ELSE sub)

\* WordErrorRate(): the metric's state, with the history of its updates
WordErrorRate == [errors |-> 0, total |-> 0, updates |-> << >>]

\* WordErrorRate.update(preds, target): over zip(preds, target)
RECURSIVE wer_accumulate(_, _, _, _)
wer_accumulate(wer, preds, target, k) ==
    IF k > Len(preds) \/ k > Len(target) THEN wer
    ELSE wer_accumulate([wer EXCEPT
                            !.errors = @ + edit_distance(split(preds[k], << >>),
                                                         split(target[k], << >>)),
                            !.total = @ + Len(split(target[k], << >>))],
                        preds, target, k + 1)

wer_update(wer, preds, target) ==
    [wer_accumulate(wer, preds, target, 1) EXCEPT
        !.updates = Append(@, [preds |-> preds, target |-> target])]

\* WordErrorRate.compute(): errors / total
wer_compute(wer) == Frac(wer.errors, wer.total)

\* 1 - result for a float result; 1 - nan is nan
OneMinus(f) == IF f.den = 0 THEN NaN ELSE Frac(f.den - f.num, f.den)

NoOutput == [ret |-> NaN, updates |-> << >>]

RECURSIVE validation_fn_loop(_, _, _, _)
validation_fn_loop(wer, ovmodel, dataset, k) ==
    IF k > Len(dataset) THEN wer
    ELSE LET sample == dataset[k]
             logits == ovmodel[sample.input_values]
             predicted_ids == argmax_last_axis(logits)
             transcription == batch_decode(predicted_ids)
         IN  validation_fn_loop(wer_update(wer, transcription, <<sample.text>>),
                                ovmodel, dataset, k + 1)

\* faulty variant: the word error rate itself is returned
validation_fn_returns_wer(ovmodel, dataset) ==
    LET wer == validation_fn_loop(WordErrorRate, ovmodel, dataset, 1)
    IN  [ret |-> wer_compute(wer), updates |-> wer.updates]

validation_fn(ovmodel, dataset) ==
    LET wer == validation_fn_loop(WordErrorRate, ovmodel, dataset, 1)
        res == wer_compute(wer)
    IN  [ret |-> OneMinus(res), updates |-> wer.updates]

torch_infer(torch_model, sample) ==
    LET logits == torch_model[sample.input_values]
        predicted_ids == argmax_last_axis(logits)
    IN  batch_decode(predicted_ids)

ov_infer(ovmodel, sample) ==
    LET logits == ovmodel[sample.input_values]
        predicted_ids == argmax_last_axis(logits)
    IN  batch_decode(predicted_ids)

\* infer_fn(model, sample), the function being passed by name
InferFns == {"torch_infer", "ov_infer"}
call_infer_fn(infer_fn, m, sample) ==
    IF infer_fn = "torch_infer" THEN torch_infer(m, sample) ELSE ov_infer(m, sample)

RECURSIVE compute_wer_loop(_, _, _, _, _)
compute_wer_loop(wer, dataset, m, infer_fn, k) ==
    IF k > Len(dataset) THEN wer
    ELSE LET sample == dataset[k]
             transcription == call_infer_fn(infer_fn, m, sample)
         IN  compute_wer_loop(wer_update(wer, transcription, <<sample.text>>),
                              dataset, m, infer_fn, k + 1)

compute_wer(dataset, m, infer_fn) ==
    LET wer == compute_wer_loop(WordErrorRate, dataset, m, infer_fn, 1)
    IN  [ret |-> wer_compute(wer), updates |-> wer.updates]

----------------------------------------------------------------------------
(* 227-whisper-nncf-quantize: calculate_transcription_time_and_accuracy *)

\* data_item["audio"]["array"] and data_item["text"]
Recordings == {"u1", "u2"}
ReferenceTexts == {<<"A">>, <<"B">>, <<"A", " ", "B">>}
DataItems == [audio : Recordings, text : ReferenceTexts]

\* model.transcribe(audio, task=task.value)["text"]: a model is what it
\* transcribes each recording to
Transcripts == {<<" ", "a">>, <<" ", "a", " ", "a">>}
WhisperModels == [Recordings -> Transcripts]
transcribe(whisper, audio) == [text |-> whisper[audio]]

\* end_time - start_time of one call of transcribe
DeltaTimes == {1, 2}

lower(c) == IF c = "A" THEN "a" ELSE IF c = "B" THEN "b" ELSE c

RECURSIVE join(_)
join(words) ==
    IF words = << >> THEN << >>
    ELSE IF Len(words) = 1 THEN Head(words)
    ELSE Head(words) \o <<" ">> \o join(Tail(words))

\* processor.tokenizer._normalize: lower case, white space collapsed
normalize(text) == join(split([k \in 1 .. Len(text) |-> lower(text[k])], << >>))

\* np.mean: nan for the empty list
RECURSIVE sum(_)
sum(a) == IF a = << >> THEN 0 ELSE Head(a) + sum(Tail(a))
np_mean(a) == IF a = << >> THEN NaN ELSE Frac(sum(a), Len(a))

\* wer.compute(references=..., predictions=...) of evaluate's "wer": the
\* errors and the reference words summed over zip(predictions, references)
RECURSIVE wer_measures(_, _, _, _)
wer_measures(refs, preds, k, acc) ==
    IF k > Len(refs) \/ k > Len(preds) THEN acc
    ELSE wer_measures(refs, preds, k + 1,
                      [incorrect |-> acc.incorrect
                                     + edit_distance(split(refs[k], << >>),
                                                     split(preds[k], << >>)),
                       total |-> acc.total + Len(split(refs[k], << >>))])

\* incorrect / total divides by zero when the refs hold no word
evaluate_wer(refs, preds) ==
    LET m == wer_measures(refs, preds, 1, [incorrect |-> 0, total |-> 0])
    IN  [raises |-> m.total = 0, value |-> Frac(m.incorrect, m.total)]

\* faulty variant: the accuracy as a fraction, not scaled to per cent
word_accuracy_fraction(wer_value) == Frac(wer_value.den - wer_value.num, wer_value.den)

\* (1 - wer) * 100
word_accuracy(wer_value) == Frac((wer_value.den - wer_value.num) * 100, wer_value.den)

NoMeasurement == [mean_inference_time |-> NaN, word_accuracy |-> NaN]

----------------------------------------------------------------------------
(* 227-whisper-nncf-quantize: the notebook run top to bottom.  A cell runs  *)
(* when the cells above it have run, and the run stops at the first cell    *)
(* that raises.                                                             *)

WHISPER_ENCODER_OV_INT8 == "whisper_encoder_int8.xml"
WHISPER_DECODER_OV_INT8 == "whisper_decoder_int8.xml"
IRFiles == {WHISPER_ENCODER_OV_INT8, WHISPER_DECODER_OV_INT8}

\* no model: a name not yet bound, a file not on disk
NoModel == [part |-> NoValue, calibrated_on |-> << >>]

\* nncf.quantize(model, calibration_dataset=nncf.Dataset(data), subset_size):
\* the model calibrated on the first subset_size samples
nncf_quantize(part, data, subset_size) ==
    [part |-> part, calibrated_on |-> SliceTo(data, subset_size)]

\* what a nncf.quantize call was given and the state it found
QuantizeCall(part, data, subset_size) ==
    [part |-> part, calibration_dataset |-> data, subset_size |-> subset_size,
     flag |-> COLLECT_CALIBRATION_DATA, collection |-> collection,
     encoder_list |-> encoder_calibration_data,
     decoder_list |-> decoder_calibration_data]

NotLoaded == [loaded |-> FALSE, encoder |-> NoModel, decoder |-> NoModel, serialized |-> {}]

----------------------------------------------------------------------------
(* Inputs *)

DirectTokens ==
    {<<"a">>, <<".">>} \cup {ContinuationPrefix \o <<c>> : c \in Letters}

RECURSIVE ListsUpTo(_, _)
ListsUpTo(S, n) ==
    IF n = 0 THEN {<< >>}
    ELSE LET shorter == ListsUpTo(S, n - 1)
         IN  shorter \cup {Append(l, x) : l \in {t \in shorter : Len(t) = n - 1}, x \in S}

TokenLists == ListsUpTo(DirectTokens, MaxTokens)

WerDatasets == ListsUpTo(Samples, MaxSamples)

TestDatasets == ListsUpTo(DataItems, MaxItems)

\* the model emits one row per input id: [CLS], the tokens, [SEP]
Results(n) == [1 .. (n + 2) -> Rows]
LabelResults(n) == [1 .. (n + 2) -> LabelRows]

\* entity groups of the aggregating pipeline: non-empty, in order, disjoint
Spans(n) == {<<b, e>> : b \in 0 .. n, e \in 0 .. n} \cap {sp \in (0 .. n) \X (0 .. n) : sp[1] < sp[2]}

SpanLists(n) ==
    {l \in ListsUpTo(Spans(n), MaxSpans) :
        \A k \in 1 .. (Len(l) - 1) : l[k][2] <= l[k + 1][1]}

----------------------------------------------------------------------------
(* Calls of the typo-detector helpers *)

Init ==
    /\ op = "init"
    /\ sentence = << >>
    /\ tokens = << >>
    /\ map_to_words = EmptyDict
    /\ result = << >>
    /\ typo_indexes = << >>
    /\ splitted = << >>
    /\ typos = << >>
    /\ spans = << >>
    /\ detected = NoValue
    /\ error = NoValue
    /\ COLLECT_CALIBRATION_DATA = FALSE
    /\ encoder_calibration_data = << >>
    /\ decoder_calibration_data = << >>
    /\ collection = "idle"
    /\ collection_exc = NoValue
    /\ calls = {}
    /\ recalled = {}
    /\ enc_at_begin = << >>
    /\ dec_at_begin = << >>
    /\ block_enc = << >>
    /\ block_dec = << >>
    /\ launch = NotLaunched
    /\ fs = [d \in ModelDirs |-> AbsentDir]
    /\ model = [d \in ModelDirs |-> NoValue]
    /\ last_run = [d \in ModelDirs |-> NoRun]
    /\ save_runs = [d \in ModelDirs |-> 0]
    /\ runs = [d \in ModelDirs |-> 0]
    /\ cit_pc = "idle"
    /\ cit_dataset = << >>
    /\ cit_clock = 1
    /\ cit_items = << >>
    /\ cit_invoked = << >>
    /\ inference_time = << >>
    /\ cit_ret = NaN
    /\ wer_op = "idle"
    /\ wer_model = [a \in Audio |-> << >>]
    /\ wer_dataset = << >>
    /\ validation_out = NoOutput
    /\ compute_wer_out = NoOutput
    /\ tta_pc = "idle"
    /\ tta_model = [u \in Recordings |-> << >>]
    /\ tta_dataset = << >>
    /\ ground_truths = << >>
    /\ predictions = << >>
    /\ tta_inference_time = << >>
    /\ tta_transcribed = << >>
    /\ tta_measured = << >>
    /\ tta_ret = NoMeasurement
    /\ run_cell = "collection"
    /\ quantized_encoder = NoModel
    /\ quantized_decoder = NoModel
    /\ ir_files = [f \in IRFiles |-> NoModel]
    /\ serialized = {}
    /\ model_int8 = NotLoaded
    /\ quantize_log = << >>
    /\ use_log = << >>

\* 227-whisper-nncf-quantize: the cells of the run, top to bottom
\* the collection cell
RunCollectBegin == run_cell = "collection" /\ collection = "idle" /\ CollectBegin

RunCollectEnd == run_cell = "collection" /\ CollectEnd

RunTranscribeRaises == run_cell = "collection" /\ TranscribeRaises

\* model_fp32.transcribe calls the overwritten forward methods in the
\* collection cell and again in the accuracy cell
InTranscribe ==
    \/ run_cell = "collection" /\ collection = "collecting"
    \/ run_cell = "timed"

RunEncoderForward == InTranscribe /\ EncoderForward

RunDecoderForward == InTranscribe /\ DecoderForward

\* quantized_encoder = nncf.quantize(...)
QuantizeEncoder ==
    /\ run_cell = "collection"
    /\ collection = "done"
    /\ \E outcome \in CallOutcomes :
        IF outcome = "ok"
        THEN /\ quantized_encoder' = nncf_quantize("encoder", encoder_calibration_data,
                                                   Len(encoder_calibration_data))
             /\ quantize_log' = Append(quantize_log,
                                       QuantizeCall("encoder", encoder_calibration_data,
                                                    Len(encoder_calibration_data)))
             /\ run_cell' = "encoder_quantized"
        ELSE /\ run_cell' = "stopped"
             /\ UNCHANGED <<quantized_encoder, quantize_log>>
    /\ UNCHANGED <<quantized_decoder, ir_files, serialized, model_int8, use_log>>
    /\ UNCHANGED <<typovars, notebookvars, loadvars, timingvars, wervars, accuracyvars>>

\* serialize(quantized_encoder, WHISPER_ENCODER_OV_INT8)
SerializeEncoder ==
    /\ run_cell = "encoder_quantized"
    /\ ir_files' = [ir_files EXCEPT ![WHISPER_ENCODER_OV_INT8] = quantized_encoder]
    /\ serialized' = serialized \cup {WHISPER_ENCODER_OV_INT8}
    /\ run_cell' = "encoder_saved"
    /\ UNCHANGED <<quantized_encoder, quantized_decoder, quantize_log, model_int8, use_log>>
    /\ UNCHANGED <<typovars, notebookvars, loadvars, timingvars, wervars, accuracyvars>>

\* quantized_decoder = nncf.quantize(...)
QuantizeDecoder ==
    /\ run_cell = "encoder_saved"
    /\ \E outcome \in CallOutcomes :
        IF outcome = "ok"
        THEN /\ quantized_decoder' = nncf_quantize("decoder", decoder_calibration_data,
                                                   Len(decoder_calibration_data))
             /\ quantize_log' = Append(quantize_log,
                                       QuantizeCall("decoder", decoder_calibration_data,
                                                    Len(decoder_calibration_data)))
             /\ run_cell' = "decoder_quantized"
        ELSE /\ run_cell' = "stopped"
             /\ UNCHANGED <<quantized_decoder, quantize_log>>
    /\ UNCHANGED <<quantized_encoder, ir_files, serialized, model_int8, use_log>>
    /\ UNCHANGED <<typovars, notebookvars, loadvars, timingvars, wervars, accuracyvars>>

\* serialize(quantized_decoder, WHISPER_DECODER_OV_INT8)
SerializeDecoder ==
    /\ run_cell = "decoder_quantized"
    /\ ir_files' = [ir_files EXCEPT ![WHISPER_DECODER_OV_INT8] = quantized_decoder]
    /\ serialized' = serialized \cup {WHISPER_DECODER_OV_INT8}
    /\ run_cell' = "decoder_saved"
    /\ UNCHANGED <<quantized_encoder, quantized_decoder, quantize_log, model_int8, use_log>>
    /\ UNCHANGED <<typovars, notebookvars, loadvars, timingvars, wervars, accuracyvars>>

\* model_int8.encoder = OpenVINOAudioEncoder(core, WHISPER_ENCODER_OV_INT8, ...)
\* model_int8.decoder = OpenVINOTextDecoder(core, WHISPER_DECODER_OV_INT8, ...)
\* reading a file that is not there raises
LoadModelInt8 ==
    /\ run_cell = "decoder_saved"
    /\ IF \A f \in IRFiles : ir_files[f] # NoModel
       THEN /\ model_int8' = [loaded |-> TRUE,
                              encoder |-> ir_files[WHISPER_ENCODER_OV_INT8],
                              decoder |-> ir_files[WHISPER_DECODER_OV_INT8],
                              serialized |-> serialized]
            /\ run_cell' = "int8_loaded"
       ELSE /\ model_int8' = model_int8
            /\ run_cell' = "stopped"
    /\ UNCHANGED <<quantized_encoder, quantized_decoder, ir_files, serialized,
                   quantize_log, use_log>>
    /\ UNCHANGED <<typovars, notebookvars, loadvars, timingvars, wervars, accuracyvars>>

\* the cell that times model_fp32 and model_int8 on the calibration lists
MeasureCallInferenceTime ==
    /\ run_cell = "int8_loaded"
    /\ use_log' = Append(use_log, [cell |-> "timing", model_int8 |-> model_int8])
    /\ run_cell' = "timed"
    /\ UNCHANGED <<quantized_encoder, quantized_decoder, ir_files, serialized,
                   quantize_log, model_int8>>
    /\ UNCHANGED <<typovars, notebookvars, loadvars, timingvars, wervars, accuracyvars>>

\* the cell that compares transcription time and accuracy of the two models
MeasureTranscriptionAccuracy ==
    /\ run_cell = "timed"
    /\ use_log' = Append(use_log, [cell |-> "accuracy", model_int8 |-> model_int8])
    /\ run_cell' = "compared"
    /\ UNCHANGED <<quantized_encoder, quantized_decoder, ir_files, serialized,
                   quantize_log, model_int8>>
    /\ UNCHANGED <<typovars, notebookvars, loadvars, timingvars, wervars, accuracyvars>>

\* validation_fn(model, dataset) on an OpenVINO model
ValidationFnCall ==
    /\ wer_op = "idle"
    /\ \E ovmodel \in Models, dataset \in WerDatasets :
        /\ wer_model' = ovmodel
        /\ wer_dataset' = dataset
        /\ validation_out' = validation_fn(ovmodel, dataset)
    /\ compute_wer_out' = NoOutput
    /\ wer_op' = "validation_fn"
    /\ UNCHANGED <<typovars, notebookvars, loadvars, timingvars, accuracyvars, runvars>>

\* compute_wer(dataset, model, ov_infer) on the same model and dataset
ComputeWerCall ==
    /\ wer_op = "validation_fn"
    /\ compute_wer_out' = compute_wer(wer_dataset, wer_model, "ov_infer")
    /\ wer_op' = "compute_wer"
    /\ UNCHANGED <<wer_model, wer_dataset, validation_out>>
    /\ UNCHANGED <<typovars, notebookvars, loadvars, timingvars, accuracyvars, runvars>>

\* def calculate_transcription_time_and_accuracy(model, dataset): up to the
\* for statement
TranscriptionTimeBegin ==
    /\ tta_pc = "idle"
    /\ \E whisper \in WhisperModels, dataset \in TestDatasets :
        /\ tta_model' = whisper
        /\ tta_dataset' = dataset
    /\ ground_truths' = << >>
    /\ predictions' = << >>
    /\ tta_inference_time' = << >>
    /\ tta_transcribed' = << >>
    /\ tta_measured' = << >>
    /\ tta_ret' = NoMeasurement
    /\ tta_pc' = "loop"
    /\ UNCHANGED <<typovars, notebookvars, loadvars, timingvars, wervars, runvars>>

\* one iteration of the for loop
TranscriptionTimeStep ==
    /\ tta_pc = "loop"
    /\ Len(tta_transcribed) < Len(tta_dataset)
    /\ \E delta_time \in DeltaTimes :
        LET data_item == tta_dataset[Len(tta_transcribed) + 1]
            audio == data_item.audio
            transcription == transcribe(tta_model, audio)
            reference == normalize(data_item.text)
            prediction == normalize(transcription.text)
        IN  /\ tta_transcribed' = Append(tta_transcribed, audio)
            /\ tta_measured' = Append(tta_measured, delta_time)
            /\ ground_truths' = Append(ground_truths, reference)
            /\ predictions' = Append(predictions, prediction)
            /\ tta_inference_time' = Append(tta_inference_time, delta_time)
    /\ UNCHANGED <<tta_pc, tta_model, tta_dataset, tta_ret>>
    /\ UNCHANGED <<typovars, notebookvars, loadvars, timingvars, wervars, runvars>>

\* the loop is exhausted: the accuracy, the mean time, the return
TranscriptionTimeReturn ==
    /\ tta_pc = "loop"
    /\ Len(tta_transcribed) = Len(tta_dataset)
    /\ \E w \in {evaluate_wer(ground_truths, predictions)} :
        IF w.raises
        THEN /\ tta_pc' = "raised"
             /\ tta_ret' = tta_ret
        ELSE /\ tta_pc' = "returned"
             /\ tta_ret' = [mean_inference_time |-> np_mean(tta_inference_time),
                            word_accuracy |-> word_accuracy(w.value)]
    /\ UNCHANGED <<tta_model, tta_dataset, ground_truths, predictions,
                   tta_inference_time, tta_transcribed, tta_measured>>
    /\ UNCHANGED <<typovars, notebookvars, loadvars, timingvars, wervars, runvars>>

TokenToWordsCall ==
    /\ UNCHANGED <<notebookvars, extravars>>
    /\ op = "init"
    /\ \E toks \in TokenLists :
        /\ op' = "token_to_words"
        /\ tokens' = toks
        /\ map_to_words' = token_to_words(toks)
        /\ sentence' = << >>
        /\ result' = << >>
        /\ typo_indexes' = << >>
        /\ splitted' = << >>
        /\ typos' = << >>
        /\ spans' = << >>
        /\ detected' = NoValue
        /\ error' = NoValue

GetTypoIndexesCall ==
    /\ UNCHANGED <<notebookvars, extravars>>
    /\ op = "token_to_words"
    /\ \E res \in Results(Len(tokens)) :
        /\ op' = "get_typo_indexes"
        /\ result' = res
        /\ typo_indexes' = get_typo_indexes(res, map_to_words, tokens)
    /\ UNCHANGED <<sentence, tokens, map_to_words, splitted, typos, spans, detected, error>>

SentenceSplitCall ==
    /\ UNCHANGED <<notebookvars, extravars>>
    /\ op = "init"
    /\ \E s \in Sentences :
        /\ op' = "sentence_split"
        /\ sentence' = s
        /\ splitted' = sentence_split(s)
        /\ tokens' = << >>
        /\ map_to_words' = EmptyDict
        /\ result' = << >>
        /\ typo_indexes' = << >>
        /\ typos' = << >>
        /\ spans' = << >>
        /\ detected' = NoValue
        /\ error' = NoValue

ShowTyposCall ==
    /\ UNCHANGED <<notebookvars, extravars>>
    /\ op = "init"
    /\ \E s \in Sentences :
        \E res \in LabelResults(Len(tokenize(s))) :
            \E r \in {show_typos(s, res)} :
                /\ op' = "show_typos"
                /\ sentence' = s
                /\ result' = res
                /\ tokens' = r.tokens
                /\ map_to_words' = r.map_to_words
                /\ typo_indexes' = r.typo_indexes
                /\ splitted' = r.splitted
                /\ typos' = r.typos
                /\ spans' = << >>
                /\ detected' = r.detected
                /\ error' = r.error

ShowTyposPipelineCall ==
    /\ UNCHANGED <<notebookvars, extravars>>
    /\ op = "init"
    /\ \E s \in Sentences :
        \E span_list \in SpanLists(Len(s)) :
            \E r \in {show_typos_pipeline(s, span_list)} :
                /\ op' = "show_typos_pipeline"
                /\ sentence' = s
                /\ spans' = span_list
                /\ typos' = r.typos
                /\ detected' = r.detected
                /\ tokens' = << >>
                /\ map_to_words' = EmptyDict
                /\ result' = << >>
                /\ typo_indexes' = << >>
                /\ splitted' = << >>
                /\ error' = NoValue


Next ==
    \/ TokenToWordsCall
    \/ GetTypoIndexesCall
    \/ SentenceSplitCall
    \/ ShowTyposCall
    \/ ShowTyposPipelineCall

Spec == Init /\ [][Next]_vars

NextNotebooks ==
    \/ CollectBegin
    \/ EncoderForward
    \/ DecoderForward
    \/ CollectEnd
    \/ TranscribeRaises

SpecNotebooks == Init /\ [][NextNotebooks]_vars

NextLoad ==
    \/ LoadOptimumModel
    \/ LoadPytorchModel
    \/ ExportOnnx

SpecLoad == Init /\ [][NextLoad]_vars

\* the cells of the notebooks in which a library call can raise
NextCells ==
    \/ LoadOptimumModel
    \/ LoadPytorchModel
    \/ ExportOnnx
    \/ DemoLaunch
    \/ CollectBegin
    \/ CollectEnd
    \/ TranscribeRaises

SpecCells == Init /\ [][NextCells]_vars

NextTiming ==
    \/ CallInferenceTimeBegin
    \/ CallInferenceTimeStep
    \/ CallInferenceTimeReturn

SpecTiming == Init /\ [][NextTiming]_vars

NextWer ==
    \/ ValidationFnCall
    \/ ComputeWerCall

SpecWer == Init /\ [][NextWer]_vars

NextAccuracy ==
    \/ TranscriptionTimeBegin
    \/ TranscriptionTimeStep
    \/ TranscriptionTimeReturn

SpecAccuracy == Init /\ [][NextAccuracy]_vars

NextRun ==
    \/ RunCollectBegin
    \/ RunEncoderForward
    \/ RunDecoderForward
    \/ RunCollectEnd
    \/ RunTranscribeRaises
    \/ QuantizeEncoder
    \/ SerializeEncoder
    \/ QuantizeDecoder
    \/ SerializeDecoder
    \/ LoadModelInt8
    \/ MeasureCallInferenceTime
    \/ MeasureTranscriptionAccuracy

SpecRun == Init /\ [][NextRun]_vars

----------------------------------------------------------------------------
(* Notions the properties are stated with *)

IsContinuation(token) == startswith(token, ContinuationPrefix)

\* number of words counted from a token list
NumWords(toks) == Cardinality({j \in 1 .. Len(toks) : ~IsContinuation(toks[j])})

\* 0-based index of the word that the token at (1-based) position i belongs to
WordIndexAt(toks, i) == Cardinality({j \in 1 .. i : ~IsContinuation(toks[j])}) - 1

DictValues(d) == {d[k] : k \in DOMAIN d}
ListValues(l) == {l[k] : k \in 1 .. Len(l)}

\* token positions whose aligned result row has argmax label 1
Flagged(res, toks) == {c \in 1 .. Len(toks) : argmax(res[c + 1]) = 1}

Occurrences(s, c) == Cardinality({k \in 1 .. Len(s) : s[k] = c})

NotSpace(c) == c # " "
RemoveSpaces(s) == SelectSeq(s, NotSpace)

\* the sentence with <i> before and </i> after each of the given disjoint
\* (start, end) character spans, and nothing else
TagSpans(s, spanset) ==
    Concat([k \in 1 .. Len(s) |->
        (IF \E sp \in spanset : sp[1] = k - 1 THEN OpenTag ELSE << >>)
            \o <<s[k]>>
            \o (IF \E sp \in spanset : sp[2] = k THEN CloseTag ELSE << >>)])

\* (start, end) spans of the pieces of sentence_split, in order: the maximal
\* runs of non-delimiters and every delimiter other than the space
PieceSpanSet(s) ==
    {sp \in (0 .. Len(s)) \X (0 .. Len(s)) :
        /\ sp[1] < sp[2]
        /\ \/ /\ sp[2] = sp[1] + 1
              /\ s[sp[2]] \in Delims \ {" "}
           \/ /\ \A k \in (sp[1] + 1) .. sp[2] : s[k] \notin Delims
              /\ sp[1] = 0 \/ s[sp[1]] \in Delims
              /\ sp[2] = Len(s) \/ s[sp[2] + 1] \in Delims}

RECURSIVE SortSpans(_)
SortSpans(S) ==
    IF S = {} THEN << >>
    ELSE LET first == CHOOSE sp \in S : \A other \in S : sp[1] <= other[1]
         IN  <<first>> \o SortSpans(S \ {first})

PieceSpans(s) == SortSpans(PieceSpanSet(s))

\* deleting every <i> and </i> in one pass from left to right
RECURSIVE StripTags(_)
StripTags(s) ==
    IF s = << >> THEN << >>
    ELSE IF startswith(s, OpenTag) THEN StripTags(SubSeq(s, Len(OpenTag) + 1, Len(s)))
    ELSE IF startswith(s, CloseTag) THEN StripTags(SubSeq(s, Len(CloseTag) + 1, Len(s)))
    ELSE <<Head(s)>> \o StripTags(Tail(s))

ContainsSeq(s, sub) == \E k \in 0 .. (Len(s) - Len(sub)) : SubSeq(s, k + 1, k + Len(sub)) = sub

----------------------------------------------------------------------------
(* Properties of the typo-detector helpers *)

\* C1: after token_to_words, for every position i of the token list,
\* map_to_words[tokens[i]] is the index of the word that token i belongs to
\* (the number of non-'##' tokens at positions 0..i, minus one).
C1_TokenMapsToItsWord ==
    op = "token_to_words" =>
        \A i \in 1 .. Len(tokens) : map_to_words[tokens[i]] = WordIndexAt(tokens, i)

HasMap == op \in {"token_to_words", "get_typo_indexes", "show_typos"}

IndexesValid ==
    /\ \A w \in DictValues(map_to_words) : 0 <= w /\ w < NumWords(tokens)
    /\ \A w \in ListValues(typo_indexes) : 0 <= w /\ w < NumWords(tokens)

\* C2 as stated: for every token list, every value of map_to_words and every
\* element of the list returned by get_typo_indexes is a word index w with
\* 0 <= w < number of tokens that do not start with '##'.
C2_IndexesValidForEveryTokenList == HasMap => IndexesValid

\* C2 as amended: the same, for every token list that does not begin with a
\* '##' token.
C2_IndexesValidAfterWordStart ==
    (HasMap /\ (tokens = << >> \/ ~IsContinuation(tokens[1]))) => IndexesValid

C2_Witness ==
    /\ op = "get_typo_indexes"
    /\ Len(tokens) = 3
    /\ ~IsContinuation(tokens[1])
    /\ IsContinuation(tokens[2])
    /\ Len(typo_indexes) = 2

\* C3: the list returned by get_typo_indexes holds word index w if and only
\* if some token position of word w has argmax label 1 in its result row.
C3_ExactlyTheTypoWords ==
    op = "get_typo_indexes" =>
        \A w \in -1 .. Len(tokens) :
            InList(w, typo_indexes)
                <=> \E c \in Flagged(result, tokens) : WordIndexAt(tokens, c) = w

\* C4: in show_typos the number of words counted from the tokens equals
\* len(sentence_split(sentence)), no index of typo_indexes raises, and the
\* selected elements are the words that contain the flagged tokens.
C4_ShowTyposSelectsFlaggedWords ==
    op = "show_typos" =>
        /\ NumWords(tokens) = Len(splitted)
        /\ error = NoValue
        /\ ListValues(typos) =
               {basic_tokenize(sentence, << >>)[WordIndexAt(tokens, c) + 1] :
                    c \in Flagged(result, tokens)}

\* C5: the 'detected' string is the sentence with exactly the detected typos
\* enclosed in one <i>...</i> pair each, and nothing else enclosed.
C5_AnnotatesExactlyTheTypos ==
    /\ (op = "show_typos" /\ error = NoValue) =>
           detected = TagSpans(sentence,
                               {PieceSpans(sentence)[w + 1] : w \in ListValues(typo_indexes)})
    /\ op = "show_typos_pipeline" =>
           detected = TagSpans(sentence, ListValues(spans))

\* C6: deleting every <i> and </i> from the 'detected' string gives back the
\* sentence (the sentence itself containing neither).
C6_DetectedIsSentencePlusTags ==
    ((op = "show_typos" /\ error = NoValue) \/ op = "show_typos_pipeline") =>
        (~ContainsSeq(sentence, OpenTag) /\ ~ContainsSeq(sentence, CloseTag)
            => StripTags(detected) = sentence)

HasSplit == op \in {"sentence_split", "show_typos"}

\* C7: the pieces returned by sentence_split, concatenated in order, are the
\* sentence with every space removed.
C7_SplitLosesOnlySpaces == HasSplit => Concat(splitted) = RemoveSpaces(sentence)

C7_Witness ==
    /\ op = "sentence_split"
    /\ Len(sentence) = 3
    /\ sentence[1] \in Letters
    /\ sentence[2] = " "
    /\ sentence[3] \in Delims \ {" "}

\* C8: no piece is empty or a single space, every apostrophe, comma and
\* period of the sentence is a one-character piece of its own, and no other
\* piece contains a space, apostrophe, comma or period.
C8_SplitIntoWordsAndCharacters ==
    HasSplit =>
        /\ \A k \in 1 .. Len(splitted) : splitted[k] # << >> /\ splitted[k] # <<" ">>
        /\ \A d \in Delims \ {" "} : Occurrences(splitted, <<d>>) = Occurrences(sentence, d)
        /\ \A k \in 1 .. Len(splitted) :
               \/ Len(splitted[k]) = 1 /\ splitted[k][1] \in Delims \ {" "}
               \/ \A j \in 1 .. Len(splitted[k]) : splitted[k][j] \notin Delims

C8_Witness ==
    /\ op = "sentence_split"
    /\ \E k \in 1 .. (Len(sentence) - 2) :
           /\ sentence[k] \in Delims \ {" "}
           /\ sentence[k + 1] = " "
           /\ sentence[k + 2] = " "

----------------------------------------------------------------------------
(* Properties of the notebook cells *)

\* C9 as stated: no notebook handles or retries: every exception raised by
\* a library call propagates uncaught and the failed operation is attempted
\* only once.
C9_NoHandlingNoRetry ==
    /\ collection = "failed" => collection_exc # NoValue
    /\ launch.raised > 0 => launch.uncaught # NoValue
    /\ launch.attempts <= 1

\* C9 as amended: an exception raised inside the calibration collection
\* block leaves the cell uncaught; the demo launch cell catches an Exception
\* of demo.launch(debug=True) and attempts the launch once more, with
\* share=True; an exception of that second attempt, and a first exception
\* that is not an Exception, propagate uncaught; there is no third attempt.
C9_OnlyTheLaunchFallback ==
    /\ collection = "failed" => collection_exc # NoValue
    /\ launch.attempts <= 2
    /\ launch.attempts = 2 <=> launch.share
    /\ (launch.attempts > 0 /\ launch.raised >= launch.attempts) =>
           (launch.uncaught # NoValue /\ ~launch.running)
    /\ (launch.attempts > 0 /\ launch.raised < launch.attempts) =>
           (launch.uncaught = NoValue /\ launch.running)
    /\ (launch.uncaught = "Exception") => launch.attempts = 2

C9_Witness ==
    /\ collection = "failed"
    /\ launch.attempts = 2
    /\ launch.raised = 2
    /\ launch.uncaught = "KeyboardInterrupt"

SameCall(c1, c2) == c1.fn = c2.fn /\ c1.args = c2.args
SameEffect(c1, c2) == c1.appended = c2.appended /\ c1.ret = c2.ret

\* C10 as stated: the effect of a call of encoder_forward or decoder_forward
\* (return value, what it appends) is determined by its arguments alone.
C10_EffectDeterminedByArguments ==
    \A c1 \in calls, c2 \in calls : SameCall(c1, c2) => SameEffect(c1, c2)

\* C10 as amended: the effect is determined by the arguments together with
\* the value of the global flag COLLECT_CALIBRATION_DATA at the call: two
\* calls with equal arguments made under equal values of the flag have the
\* same effect, whatever ran before them.
C10_EffectDeterminedByArgumentsAndFlag ==
    \A c1 \in calls, c2 \in calls :
        (SameCall(c1, c2) /\ c1.flag = c2.flag) => SameEffect(c1, c2)

C10_Witness ==
    \E c1 \in calls, c2 \in calls :
        /\ SameCall(c1, c2)
        /\ c1.fn = "encoder_forward" /\ c1.fn \in recalled
        /\ c1.flag /\ ~c2.flag

----------------------------------------------------------------------------
(* Properties of the load cells *)

----------------------------------------------------------------------------
(* Properties of the calibration collection *)

InBlockOrAfter == collection \in {"collecting", "done", "failed"}

\* every forward call made inside the block appended exactly its input,
\* in call order, and nothing else changed the lists
CollectedInCallOrder ==
    /\ encoder_calibration_data = enc_at_begin \o block_enc
    /\ decoder_calibration_data = dec_at_begin \o block_dec

\* C12 as stated: inside the block every encoder forward call appends
\* exactly its mel and every decoder forward call exactly its preprocessed
\* feed_dict, in call order, so that at the end of the block the length of
\* each list is the number of forward calls made inside the block.
C12_ListLengthIsCallsOfBlock ==
    InBlockOrAfter =>
        /\ CollectedInCallOrder
        /\ collection \in {"done", "failed"} =>
               /\ Len(encoder_calibration_data) = Len(block_enc)
               /\ Len(decoder_calibration_data) = Len(block_dec)

\* C12 as amended: the same appends, so that at the end of the block each
\* list has grown by the number of forward calls made inside the block; its
\* length is that number when the list was empty as the block began.
C12_ListGrowsByCallsOfBlock ==
    InBlockOrAfter =>
        /\ CollectedInCallOrder
        /\ collection \in {"done", "failed"} =>
               /\ Len(encoder_calibration_data) = Len(enc_at_begin) + Len(block_enc)
               /\ Len(decoder_calibration_data) = Len(dec_at_begin) + Len(block_dec)
               /\ enc_at_begin = << >> => Len(encoder_calibration_data) = Len(block_enc)
               /\ dec_at_begin = << >> => Len(decoder_calibration_data) = Len(block_dec)

C12_Witness ==
    /\ collection = "done"
    /\ Len(block_enc) = 1
    /\ Len(block_dec) = 2
    /\ block_dec[1] # block_dec[2]
    /\ enc_at_begin = << >>
    /\ dec_at_begin = << >>

----------------------------------------------------------------------------
(* Properties of calculate_call_inference_time *)

Below(a, x) == Cardinality({j \in 1 .. Len(a) : a[j] < x})
Above(a, x) == Cardinality({j \in 1 .. Len(a) : a[j] > x})

\* m is the median of the list a: an entry with at most half of the entries
\* below it and at most half above it, the mean of the lower and the upper
\* such entry when the length is even
IsMedian(a, m) ==
    LET n == Len(a)
    IN  IF n = 0 THEN m = NaN
        ELSE /\ m.den > 0
             /\ \E lo, hi \in ListValues(a) :
                    /\ Below(a, lo) <= (n - 1) \div 2 /\ Above(a, lo) <= n \div 2
                    /\ Below(a, hi) <= n \div 2 /\ Above(a, hi) <= (n - 1) \div 2
                    /\ 2 * m.num = (lo + hi) * m.den

\* C13, as stated: calculate_call_inference_time invokes the model exactly
\* once on every item of the dataset it is given, in order, records one time
\* per item and returns the median of those times.
C13_InvokedOnEveryItem ==
    cit_pc = "returned" =>
        /\ cit_invoked = cit_dataset
        /\ Len(inference_time) = Len(cit_dataset)
        /\ IsMedian(inference_time, cit_ret)

\* C13, amended: the model is invoked exactly once on each of the first 100
\* items of the dataset (on every item when there are at most 100), in
\* order; one time is recorded per invocation; the value returned is the
\* median of the recorded times, nan when none was recorded.
C13_InvokedOnFirstHundredItems ==
    /\ Len(inference_time) = Len(cit_invoked)
    /\ Len(cit_invoked) <= SliceLimit
    /\ Len(cit_invoked) <= Len(cit_dataset)
    /\ cit_invoked = SubSeq(cit_dataset, 1, Len(cit_invoked))
    /\ cit_pc = "returned" =>
           /\ Len(cit_invoked) = SliceLimit \/ cit_invoked = cit_dataset
           /\ IsMedian(inference_time, cit_ret)

C13_Witness ==
    /\ cit_pc = "returned"
    /\ Len(cit_dataset) > SliceLimit
    /\ Len(cit_invoked) = SliceLimit
    /\ cit_clock = 2
    /\ cit_ret.den = 2

----------------------------------------------------------------------------
(* Properties of validation_fn and compute_wer *)

RECURSIVE SumErrors(_, _)
SumErrors(ovmodel, dataset) ==
    IF dataset = << >> THEN 0
    ELSE edit_distance(split(ov_infer(ovmodel, Head(dataset))[1], << >>),
                       split(Head(dataset).text, << >>))
         + SumErrors(ovmodel, Tail(dataset))

RECURSIVE SumWords(_)
SumWords(dataset) ==
    IF dataset = << >> THEN 0
    ELSE Len(split(Head(dataset).text, << >>)) + SumWords(Tail(dataset))

\* C14: validation_fn(model, dataset) is 1 - WER accumulated over every
\* sample of the dataset and equals 1 - compute_wer(dataset, model, ov_infer);
\* both update the metric once per sample, in order, with the same pair of
\* transcription and reference text.
C14_ValidationFnAgreesWithComputeWer ==
    /\ wer_op \in {"validation_fn", "compute_wer"} =>
           /\ Len(validation_out.updates) = Len(wer_dataset)
           /\ \A k \in 1 .. Len(wer_dataset) :
                  validation_out.updates[k] =
                      [preds |-> ov_infer(wer_model, wer_dataset[k]),
                       target |-> <<wer_dataset[k].text>>]
           /\ IF SumWords(wer_dataset) = 0
              THEN validation_out.ret = NaN
              ELSE /\ validation_out.ret.den > 0
                   /\ validation_out.ret.num * SumWords(wer_dataset) =
                          (SumWords(wer_dataset) - SumErrors(wer_model, wer_dataset))
                              * validation_out.ret.den
    /\ wer_op = "compute_wer" =>
           /\ validation_out.ret = OneMinus(compute_wer_out.ret)
           /\ validation_out.updates = compute_wer_out.updates

C14_Witness ==
    /\ wer_op = "compute_wer"
    /\ Len(wer_dataset) = MaxSamples
    /\ wer_dataset[1] # wer_dataset[2]
    /\ compute_wer_out.updates[1].preds # compute_wer_out.updates[2].preds
    /\ compute_wer_out.ret.num > 0
    /\ compute_wer_out.ret.num < compute_wer_out.ret.den

----------------------------------------------------------------------------
(* Properties of calculate_transcription_time_and_accuracy *)

\* the words of a text, in lower case
Words(text) == split([k \in 1 .. Len(text) |-> lower(text[k])], << >>)

RECURSIVE ReferenceWords(_)
ReferenceWords(dataset) ==
    IF dataset = << >> THEN 0
    ELSE Len(Words(Head(dataset).text)) + ReferenceWords(Tail(dataset))

RECURSIVE WordErrors(_, _)
WordErrors(whisper, dataset) ==
    IF dataset = << >> THEN 0
    ELSE edit_distance(Words(Head(dataset).text), Words(whisper[Head(dataset).audio]))
         + WordErrors(whisper, Tail(dataset))

\* C15: model.transcribe is called exactly once per dataset item; after each
\* iteration ground_truths, predictions and inference_time have the same
\* length, the number of items processed, entry i of each coming from item i;
\* the function returns the mean of the recorded times together with
\* (1 - WER(references, predictions)) * 100.
C15_ListsAlignedMeanTimeAndAccuracy ==
    /\ Len(ground_truths) = Len(tta_transcribed)
    /\ Len(predictions) = Len(tta_transcribed)
    /\ Len(tta_inference_time) = Len(tta_transcribed)
    /\ Len(tta_transcribed) <= Len(tta_dataset)
    /\ \A i \in 1 .. Len(tta_transcribed) :
           /\ tta_transcribed[i] = tta_dataset[i].audio
           /\ Words(ground_truths[i]) = Words(tta_dataset[i].text)
           /\ Words(predictions[i]) = Words(tta_model[tta_dataset[i].audio])
           /\ tta_inference_time[i] = tta_measured[i]
    /\ tta_pc \in {"returned", "raised"} => Len(tta_transcribed) = Len(tta_dataset)
    /\ tta_pc = "raised" => ReferenceWords(tta_dataset) = 0
    /\ tta_pc = "returned" =>
           LET n == Len(tta_dataset)
               words == ReferenceWords(tta_dataset)
               errors == WordErrors(tta_model, tta_dataset)
           IN  /\ tta_ret.mean_inference_time.den > 0
               /\ tta_ret.mean_inference_time.num * n
                      = sum(tta_measured) * tta_ret.mean_inference_time.den
               /\ tta_ret.word_accuracy.den > 0
               /\ tta_ret.word_accuracy.num * words
                      = (words - errors) * 100 * tta_ret.word_accuracy.den

C15_Witness ==
    /\ tta_pc = "returned"
    /\ Len(tta_dataset) = MaxItems
    /\ tta_dataset[1] # tta_dataset[2]
    /\ tta_measured[1] # tta_measured[2]
    /\ predictions[1] # predictions[2]
    /\ tta_ret.word_accuracy.num > 0
    /\ tta_ret.word_accuracy.num < 100 * tta_ret.word_accuracy.den

----------------------------------------------------------------------------
(* Properties of the notebook run top to bottom *)

\* C16: in the Whisper notebook run top to bottom, collection has finished,
\* with the flag back to False, before either nncf.quantize call; each call
\* is given all samples collected so far, subset_size being the length of the
\* list at the call; each INT8 IR file is written by serialize before
\* model_int8 loads it; model_int8 exists before the timing and the accuracy
\* comparison use it.
C16_ProducedBeforeConsumed ==
    /\ \A k \in 1 .. Len(quantize_log) :
           LET q == quantize_log[k]
               list == IF q.part = "encoder" THEN q.encoder_list ELSE q.decoder_list
           IN  /\ q.collection = "done"
               /\ q.flag = FALSE
               /\ q.calibration_dataset = list
               /\ q.subset_size = Len(list)
               /\ q.encoder_list = enc_at_begin \o block_enc
               /\ q.decoder_list = dec_at_begin \o block_dec
               /\ q.encoder_list = encoder_calibration_data
               /\ q.decoder_list = decoder_calibration_data
    /\ model_int8.loaded =>
           /\ IRFiles \subseteq model_int8.serialized
           /\ model_int8.encoder = [part |-> "encoder", calibrated_on |-> encoder_calibration_data]
           /\ model_int8.decoder = [part |-> "decoder", calibrated_on |-> decoder_calibration_data]
    /\ \A k \in 1 .. Len(use_log) :
           /\ use_log[k].model_int8.loaded
           /\ use_log[k].model_int8 = model_int8

C16_Witness ==
    /\ run_cell = "compared"
    /\ Len(use_log) = 2
    /\ Len(quantize_log) = 2
    /\ Len(model_int8.encoder.calibrated_on) = 1
    /\ Len(model_int8.decoder.calibrated_on) = 2
    /\ \E c \in calls : ~c.flag

====
